---------------------------- MODULE Spec2Model ----------------------------
(* fibdrv bn.c: sign-magnitude big integers over an array of limbs.       *)
(* The heap is modelled explicitly: bn structs (handles) point to limb     *)
(* buffers, so aliasing of operands and ownership of buffers are visible.  *)
(* Limbs are LimbBits wide (32 in the source, scaled down here); all limb  *)
(* arithmetic is done modulo Base = 2^LimbBits as the C code does it on    *)
(* unsigned int.                                                           *)
EXTENDS Integers, Sequences, FiniteSets, TLC

\* ---------------------------------------------------------------- bounds
LimbBits == 2
MaxSize == 2
MaxCalls == 5

Base == 2 ^ LimbBits
LimbMax == Base - 1
Limbs == 0 .. LimbMax

\* addresses kmalloc can hand out for bn structs and for limb buffers
Handles == {"h1", "h2", "h3"}
Bufs == {"m1", "m2", "m3", "m4", "m5"}
NULL == "null"
\* content of memory krealloc/kmalloc returns without initialising it
Poison == LimbMax

VARIABLES hdl, mem, dfree, last, calls
vars == <<hdl, mem, dfree, last, calls>>

\* ------------------------------------------------------- pure helpers
MAX(a, b) == IF a > b THEN a ELSE b

DIV_ROUNDUP(x, len) == (x + len - 1) \div len

RECURSIVE BitLen(_)
BitLen(x) == IF x = 0 THEN 0 ELSE 1 + BitLen(x \div 2)

\* __builtin_clz on a nonzero limb
builtin_clz(x) == LimbBits - BitLen(x)

RECURSIVE Val(_, _)
\* the magnitude held in the first n limbs of data (limb 0 least significant)
Val(data, n) == IF n = 0 THEN 0 ELSE data[n] * Base ^ (n - 1) + Val(data, n - 1)

\* the fields of a heap state st
Size(st, h) == st.hdl[h].size
Sign(st, h) == st.hdl[h].sign
Data(st, h) == st.mem[st.hdl[h].number].data
\* a->number[i], C index i
Limb(st, h, i) == Data(st, h)[i + 1]
Mag(st, h) == Val(Data(st, h), Size(st, h))
\* the value a handle holds, without the address of its buffer
Content(st, h) == [sign |-> Sign(st, h), size |-> Size(st, h),
                   limbs |-> [i \in 1 .. Size(st, h) |-> Data(st, h)[i]]]

Usable(st, h) == /\ h \in Handles
                 /\ st.hdl[h].live
                 /\ st.hdl[h].number \in Bufs
                 /\ st.mem[st.hdl[h].number].alloc
                 /\ Len(st.mem[st.hdl[h].number].data) = st.hdl[h].size

Normalized(st, h) == Size(st, h) >= 1 /\ (Size(st, h) = 1 \/ Limb(st, h, Size(st, h) - 1) # 0)

\* ------------------------------------------------------------ allocator
FreeBufs(st) == {m \in Bufs : ~st.mem[m].alloc}
FreshBuf(st) == CHOOSE m \in FreeBufs(st) : TRUE
FreeHandles(st) == {h \in Handles : ~st.hdl[h].live}
FreshHandle(st) == CHOOSE h \in FreeHandles(st) : TRUE

\* kfree(p) on a limb buffer; kfree(NULL) does nothing. What freed memory holds
\* is never read as limbs, so a freed buffer keeps no data; a freed struct keeps
\* the stale number pointer a later use of the dangling handle would read.
kfree_buf(st, p) ==
    IF p = NULL THEN st
    ELSE IF st.mem[p].alloc
         THEN [st EXCEPT !.mem[p] = [alloc |-> FALSE, data |-> <<>>]]
         ELSE [st EXCEPT !.dfree = @ \cup {p}]

\* kfree(p) on a bn struct
kfree_bn(st, p) ==
    IF st.hdl[p].live
    THEN [st EXCEPT !.hdl[p] = [live |-> FALSE, stale |-> TRUE, number |-> @.number,
                                size |-> 0, sign |-> 0]]
    ELSE [st EXCEPT !.dfree = @ \cup {p}]

\* the limbs krealloc leaves in a buffer of n limbs made from data
Realloced(data, n) ==
    [i \in 1 .. n |-> IF i <= Len(data) THEN data[i] ELSE Poison]

\* memset(number + from, 0, ...) up to the end of the buffer
memset0(data, from) == [i \in 1 .. Len(data) |-> IF i > from THEN 0 ELSE data[i]]

\* ------------------------------------------------------------ Limb Store
bn_alloc(st, size) ==
    LET new == FreshHandle(st)
        buf == FreshBuf(st)
    IN [st EXCEPT !.hdl[new] = [live |-> TRUE, stale |-> FALSE, number |-> buf,
                             size |-> size, sign |-> 0],
                  !.mem[buf] = [alloc |-> TRUE, data |-> [i \in 1 .. size |-> 0]]]

bn_swap_shared(st, a, b) == [st EXCEPT !.hdl[b] = st.hdl[a]]

bn_swap(st, a, b) == [st EXCEPT !.hdl[a] = st.hdl[b], !.hdl[b] = st.hdl[a]]

bn_free_nocheck(st, src) ==
    IF src = NULL THEN [st EXCEPT !.ret = 0]
    ELSE [kfree_bn(kfree_buf(st, st.hdl[src].number), src) EXCEPT !.ret = 0]

bn_free(st, src) ==
    IF src = NULL THEN [st EXCEPT !.ret = -1]
    ELSE [kfree_bn(kfree_buf(st, st.hdl[src].number), src) EXCEPT !.ret = 0]

\* krealloc(src->number, size) and the assignment of its result to src->number;
\* kr is what the allocator does: "fail", "inplace" (same address) or "move"
krealloc_assign(st, src, size, kr) ==
    LET old == st.hdl[src].number
        data == Realloced(st.mem[old].data, size)
    IN CASE kr = "fail" -> [st EXCEPT !.hdl[src].number = NULL]
         [] kr = "inplace" -> [st EXCEPT !.mem[old].data = data]
         [] OTHER ->
              LET new == FreshBuf(st)
              IN [st EXCEPT !.mem[new] = [alloc |-> TRUE, data |-> data],
                            !.mem[old] = [alloc |-> FALSE, data |-> <<>>],
                            !.hdl[src].number = new]

bn_resize_nofill(st, src, size, kr) ==
    IF src = NULL THEN [st EXCEPT !.ret = -1]
    ELSE IF size = st.hdl[src].size THEN [st EXCEPT !.ret = 0]
    ELSE IF size = 0 THEN bn_free(st, src)
    ELSE LET s1 == krealloc_assign(st, src, size, kr)
         IN IF s1.hdl[src].number = NULL THEN [s1 EXCEPT !.ret = -1]
            ELSE [s1 EXCEPT !.hdl[src].size = size, !.ret = 0]

bn_resize(st, src, size, kr) ==
    IF src = NULL THEN [st EXCEPT !.ret = -1]
    ELSE IF size = st.hdl[src].size THEN [st EXCEPT !.ret = 0]
    ELSE IF size = 0 THEN bn_free(st, src)
    ELSE LET s1 == krealloc_assign(st, src, size, kr)
             buf == s1.hdl[src].number
             s2 == IF size > st.hdl[src].size
                   THEN [s1 EXCEPT !.mem[buf].data = memset0(@, st.hdl[src].size)]
                   ELSE s1
         IN IF buf = NULL THEN [s1 EXCEPT !.ret = -1]
            ELSE [s2 EXCEPT !.hdl[src].size = size, !.ret = 0]

\* ------------------------------------------------- Bit-Length Analyzer
RECURSIVE clz_loop(_, _, _, _)
clz_loop(st, src, i, cnt) ==
    IF i < 0 THEN cnt
    ELSE IF Limb(st, src, i) # 0 THEN cnt + builtin_clz(Limb(st, src, i))
    ELSE clz_loop(st, src, i - 1, cnt + LimbBits)

bn_clz(st, src) == clz_loop(st, src, Size(st, src) - 1, 0)

bn_msb(st, src) == Size(st, src) * LimbBits - bn_clz(st, src)

\* ------------------------------------------------- Magnitude Comparator
RECURSIVE cmp_loop(_, _, _, _)
cmp_loop(st, a, b, i) ==
    IF i < 0 THEN 0
    ELSE IF Limb(st, a, i) # Limb(st, b, i)
         THEN (IF Limb(st, a, i) < Limb(st, b, i) THEN 1 ELSE -1)
         ELSE cmp_loop(st, a, b, i - 1)

bn_cmp(st, a, b) ==
    IF Size(st, a) # Size(st, b)
    THEN (IF Size(st, a) < Size(st, b) THEN 1 ELSE -1)
    ELSE cmp_loop(st, a, b, Size(st, a) - 1)

\* ------------------------------------------------------ Magnitude Adder
\* c->number[i] = v, truncated to a limb
StoreLimb(st, c, i, v) == [st EXCEPT !.mem[st.hdl[c].number].data[i + 1] = v % Base]

add_step_nocarry(st, a, b, c, i, carry) ==
    LET tmp1 == IF i < Size(st, a) THEN Limb(st, a, i) ELSE 0
        tmp2 == IF i < Size(st, b) THEN Limb(st, b, i) ELSE 0
    IN [st |-> StoreLimb(st, c, i, tmp1 + tmp2), carry |-> 0]

\* one iteration of the loop of bn_do_add: the new heap and the carry out
add_step(st, a, b, c, i, carry) ==
    LET tmp1 == IF i < Size(st, a) THEN Limb(st, a, i) ELSE 0
        tmp2 == IF i < Size(st, b) THEN Limb(st, b, i) ELSE 0
        cy == carry + tmp1 + tmp2
    IN [st |-> StoreLimb(st, c, i, cy), carry |-> cy \div Base]

RECURSIVE add_loop(_, _, _, _, _, _)
add_loop(st, a, b, c, i, carry) ==
    IF i >= Size(st, c) THEN st
    ELSE LET r == add_step(st, a, b, c, i, carry)
         IN add_loop(r.st, a, b, c, i + 1, r.carry)

add_trim_never(st, c, kr) == st

\* the post-trim of bn_do_add
add_trim(st, c, kr) ==
    IF Limb(st, c, Size(st, c) - 1) = 0 /\ Size(st, c) > 1
    THEN bn_resize(st, c, Size(st, c) - 1, kr)
    ELSE st

bn_do_add(st, a, b, c, kr) ==
    LET d0 == MAX(bn_msb(st, a), bn_msb(st, b)) + 1
        d == DIV_ROUNDUP(d0, LimbBits) + (IF d0 = 0 THEN 1 ELSE 0)
        s1 == bn_resize(st, c, d, kr)
        s2 == add_loop(s1, a, b, c, 0, 0)
    IN add_trim(s2, c, kr)

\* -------------------------------------------------- Magnitude Subtractor
sub_step_noborrow(st, a, b, c, i, carry) ==
    LET tmp1 == IF i < Size(st, a) THEN Limb(st, a, i) ELSE 0
        tmp2 == IF i < Size(st, b) THEN Limb(st, b, i) ELSE 0
        cy == tmp1 - tmp2
    IN [st |-> StoreLimb(st, c, i, cy + Base), carry |-> 0]

\* one iteration of the loop of bn_do_sub: the new heap and the borrow out
sub_step(st, a, b, c, i, carry) ==
    LET tmp1 == IF i < Size(st, a) THEN Limb(st, a, i) ELSE 0
        tmp2 == IF i < Size(st, b) THEN Limb(st, b, i) ELSE 0
        cy == tmp1 - tmp2 - carry
    IN IF cy < 0
       THEN [st |-> StoreLimb(st, c, i, cy + Base), carry |-> 1]
       ELSE [st |-> StoreLimb(st, c, i, cy), carry |-> 0]

RECURSIVE sub_loop(_, _, _, _, _, _)
sub_loop(st, a, b, c, i, carry) ==
    IF i >= Size(st, c) THEN st
    ELSE LET r == sub_step(st, a, b, c, i, carry)
         IN sub_loop(r.st, a, b, c, i + 1, r.carry)

\* the post-trim of bn_do_sub
sub_trim(st, c, kr) ==
    LET d0 == bn_clz(st, c) \div LimbBits
        d == IF d0 = Size(st, c) THEN d0 - 1 ELSE d0
    IN bn_resize(st, c, Size(st, c) - d, kr)

\* st.sub records the magnitudes bn_do_sub was entered with
bn_do_sub(st, a, b, c, kr) ==
    LET d == MAX(Size(st, a), Size(st, b))
        s0 == [st EXCEPT !.sub = [called |-> TRUE, ma |-> Mag(st, a), mb |-> Mag(st, b)]]
        s1 == bn_resize(s0, c, d, kr)
        s2 == sub_loop(s1, a, b, c, 0, 0)
    IN sub_trim(s2, c, kr)

\* ------------------------------------------- Signed Addition Orchestrator
SetSign(st, c, s) == [st EXCEPT !.hdl[c].sign = s]

add_zero_keepsign(st, c, kr) ==
    StoreLimb(bn_resize(st, c, 1, kr), c, 0, 0)

\* the branch of bn_add for |a| == |b|
add_zero(st, c, kr) ==
    SetSign(StoreLimb(bn_resize(st, c, 1, kr), c, 0, 0), c, 0)

\* the branch of bn_add for a->sign == b->sign
add_same_sign(st, a, b, c, kr) ==
    SetSign(bn_do_add(st, a, b, c, kr), c, Sign(st, a))

bn_add(st, a, b, c, kr) ==
    IF Sign(st, a) = Sign(st, b)
    THEN add_same_sign(st, a, b, c, kr)
    ELSE LET s1 == IF Sign(st, a) # 0 THEN bn_swap(st, a, b) ELSE st
             cmp == bn_cmp(s1, a, b)
         IN IF cmp > 0 THEN SetSign(bn_do_sub(s1, a, b, c, kr), c, 0)
            ELSE IF cmp < 0 THEN SetSign(bn_do_sub(s1, b, a, c, kr), c, 1)
            ELSE add_zero(s1, c, kr)

\* ------------------------------------------------------------ the machine
NoSub == [called |-> FALSE, ma |-> 0, mb |-> 0]

\* the heap as the functions above take it
Cur == [hdl |-> hdl, mem |-> mem, dfree |-> dfree, ret |-> 0, sub |-> NoSub]

NoPre == [hdl |-> <<>>, mem |-> <<>>, dfree |-> {}]

NoCall == [op |-> "init", a |-> NULL, b |-> NULL, c |-> NULL, n |-> 0, ret |-> 0,
           kr |-> "inplace", sub |-> NoSub, pre |-> NoPre]

\* the call just made: its pointer arguments a, b, c, its size argument n, its
\* result, and the heap it started from
Commit(st, op, a, b, c, n, kr) ==
    /\ hdl' = st.hdl
    /\ mem' = st.mem
    /\ dfree' = st.dfree
    /\ last' = [op |-> op, a |-> a, b |-> b, c |-> c, n |-> n, ret |-> st.ret,
                kr |-> kr, sub |-> st.sub, pre |-> [hdl |-> hdl, mem |-> mem, dfree |-> dfree]]
    /\ calls' = calls + 1

\* what krealloc may do when it succeeds, and when it may also fail
KrOk == {"inplace", "move"}
KrAny == KrOk \cup {"fail"}

\* the limb values a caller stores: every value of a 2-bit limb, the boundary
\* values of a wider one
InputLimbs == {0, 1, LimbMax - 1, LimbMax}
BnValues == UNION {[1 .. n -> InputLimbs] : n \in 1 .. MaxSize}

\* ---------------------------------------------- one call on drawn operands
\* Three values a caller has built with bn_alloc and stores to number[] and
\* sign: two operands of any content and a destination fresh from bn_alloc(1)
\* or bn_alloc(MaxSize).
Init ==
    \E d1 \in BnValues, d2 \in BnValues, s1 \in 0 .. 1, s2 \in 0 .. 1, n3 \in {1, MaxSize} :
        /\ hdl = [h \in Handles |->
                    CASE h = "h1" -> [live |-> TRUE, stale |-> FALSE, number |-> "m1", size |-> Len(d1), sign |-> s1]
                      [] h = "h2" -> [live |-> TRUE, stale |-> FALSE, number |-> "m2", size |-> Len(d2), sign |-> s2]
                      [] OTHER -> [live |-> TRUE, stale |-> FALSE, number |-> "m3", size |-> n3, sign |-> 0]]
        /\ mem = [m \in Bufs |->
                    CASE m = "m1" -> [alloc |-> TRUE, data |-> d1]
                      [] m = "m2" -> [alloc |-> TRUE, data |-> d2]
                      [] m = "m3" -> [alloc |-> TRUE, data |-> [i \in 1 .. n3 |-> 0]]
                      [] OTHER -> [alloc |-> FALSE, data |-> <<>>]]
        /\ dfree = {}
        /\ last = NoCall
        /\ calls = 0

\* bn_add(a, b, c) on the drawn operands; c may be a or b
AddCall(a, b, c, kr) ==
    /\ last.op = "init"
    /\ Commit(bn_add(Cur, a, b, c, kr), "add", a, b, c, 0, kr)

Next == \E b \in {"h1", "h2"}, c \in Handles, kr \in KrOk : AddCall("h1", b, c, kr)

Spec == Init /\ [][Next]_vars

\* bn_do_sub(a, b, c) on the drawn operands, as its callers may enter it
SubCall(a, b, c, kr) ==
    /\ last.op = "init"
    /\ Commit(bn_do_sub(Cur, a, b, c, kr), "do_sub", a, b, c, 0, kr)

NextSub == \E c \in Handles, kr \in KrOk : SubCall("h1", "h2", c, kr)

SpecSub == Init /\ [][NextSub]_vars

\* ------------------------------------------------- sequences of API calls
\* Nothing is allocated when the module is loaded.
InitLife ==
    /\ hdl = [h \in Handles |-> [live |-> FALSE, stale |-> FALSE, number |-> NULL,
                                size |-> 0, sign |-> 0]]
    /\ mem = [m \in Bufs |-> [alloc |-> FALSE, data |-> <<>>]]
    /\ dfree = {}
    /\ last = NoCall
    /\ calls = 0

Running == calls < MaxCalls /\ last.op # "crash"

\* the call just made, without the heap it started from
Step(st, op, a, b, c, n, kr) ==
    /\ hdl' = st.hdl
    /\ mem' = st.mem
    /\ dfree' = st.dfree
    /\ last' = [op |-> op, a |-> a, b |-> b, c |-> c, n |-> n, ret |-> st.ret,
                kr |-> kr, sub |-> NoSub, pre |-> NoPre]
    /\ calls' = calls + 1

Alloc(size) ==
    /\ Running
    /\ FreeHandles(Cur) # {} /\ FreeBufs(Cur) # {}
    /\ Step(bn_alloc(Cur, size), "alloc", NULL, NULL, FreshHandle(Cur), size, "inplace")

\* the caller's store p->number[i] = v
Store(p, i, v) ==
    /\ Running
    /\ Usable(Cur, p) /\ i < Size(Cur, p)
    /\ Step(StoreLimb(Cur, p, i, v), "store", p, NULL, NULL, 0, "inplace")

\* the caller's store p->sign = s
StoreSign(p, s) ==
    /\ Running
    /\ Usable(Cur, p) /\ Sign(Cur, p) # s
    /\ Step(SetSign(Cur, p, s), "sign", p, NULL, NULL, 0, "inplace")

Swap(a, b) ==
    /\ Running
    /\ a # b /\ Usable(Cur, a) /\ Usable(Cur, b)
    /\ Commit(bn_swap(Cur, a, b), "swap", a, b, NULL, 0, "inplace")

Add(a, b, c, kr) ==
    /\ Running
    /\ Usable(Cur, a) /\ Usable(Cur, b) /\ Usable(Cur, c)
    /\ Size(Cur, a) <= MaxSize /\ Size(Cur, b) <= MaxSize
    /\ FreeBufs(Cur) # {}
    /\ Step(bn_add(Cur, a, b, c, kr), "add", a, b, c, 0, kr)

\* bn_free of NULL or of a handle that has not been released
Free(src) ==
    /\ Running
    /\ src # NULL => Usable(Cur, src)
    /\ Step(bn_free(Cur, src), "free", src, NULL, NULL, 0, "inplace")

NextLife ==
    \/ \E size \in 1 .. MaxSize : Alloc(size)
    \/ \E p \in Handles, i \in 0 .. MaxSize, v \in {LimbMax} : Store(p, i, v)
    \/ \E p \in Handles, s \in 0 .. 1 : StoreSign(p, s)
    \/ \E a \in Handles, b \in Handles : Swap(a, b)
    \/ \E a \in Handles, b \in Handles, c \in Handles, kr \in KrOk : Add(a, b, c, kr)
    \/ \E src \in Handles \cup {NULL} : Free(src)

SpecLife == InitLife /\ [][NextLife]_vars

\* ------------------------------------- failing allocator, stale handles
\* bn_free(src) on any pointer the caller still holds: NULL, a live handle,
\* or one already released (the struct is read after its release)
FreeCall(src) ==
    /\ Running
    /\ src # NULL => (Cur.hdl[src].live \/ Cur.hdl[src].stale)
    /\ Commit(bn_free(Cur, src), "free", src, NULL, NULL, 0, "inplace")

\* the other outcome of bn_free on a released handle: the kernel stops
FreeCrash(src) ==
    /\ Running
    /\ src \in Handles /\ Cur.hdl[src].stale
    /\ Commit(Cur, "crash", src, NULL, NULL, 0, "inplace")

\* bn_resize(src, size) with size > 0, the allocator free to fail
ResizeCall(src, size, kr) ==
    /\ Running
    /\ Usable(Cur, src)
    /\ FreeBufs(Cur) # {}
    /\ Commit(bn_resize(Cur, src, size, kr), "resize", src, NULL, NULL, size, kr)

NextFault ==
    \/ \E size \in 1 .. MaxSize : Alloc(size)
    \/ \E a \in Handles, b \in Handles : Swap(a, b)
    \/ \E src \in Handles \cup {NULL} : FreeCall(src)
    \/ \E src \in Handles : FreeCrash(src)
    \/ \E src \in Handles, size \in 1 .. MaxSize + 1, kr \in KrAny : ResizeCall(src, size, kr)

SpecFault == InitLife /\ [][NextFault]_vars

\* ------------------------------------------------------------ properties
\* the heap the last call started from, and the heap it left
PreSt == [hdl |-> last.pre.hdl, mem |-> last.pre.mem, dfree |-> last.pre.dfree,
          ret |-> 0, sub |-> NoSub]
Post == Cur

AddDone == last.op = "add"
NormalizedOperands == Normalized(PreSt, last.a) /\ Normalized(PreSt, last.b)
OppositeUnequal ==
    /\ AddDone /\ NormalizedOperands
    /\ Sign(PreSt, last.a) # Sign(PreSt, last.b)
    /\ Mag(PreSt, last.a) # Mag(PreSt, last.b)
\* the operand of the last call with the larger magnitude
Larger == IF Mag(PreSt, last.a) > Mag(PreSt, last.b) THEN last.a ELSE last.b
Smaller == IF Larger = last.a THEN last.b ELSE last.a

\* C1: after bn_add(a, b, dest) on normalized operands of opposite sign and
\* unequal magnitude, with dest a third handle, dest holds the larger magnitude
\* minus the smaller one, with the sign of the operand of larger magnitude.
C1_OppositeSignDifference ==
    (OppositeUnequal /\ last.c \notin {last.a, last.b}) =>
        /\ Mag(Post, last.c) = Mag(PreSt, Larger) - Mag(PreSt, Smaller)
        /\ Sign(Post, last.c) = Sign(PreSt, Larger)

\* C2: after bn_add(a, b, dest) on normalized operands of the same sign, dest
\* holds exactly |a| + |b| with the sign of a, and has one limb more than the
\* longer operand exactly when the sum overflows that operand's top limb.
C2_SameSignSum ==
    (AddDone /\ NormalizedOperands /\ Sign(PreSt, last.a) = Sign(PreSt, last.b)) =>
        LET sum == Mag(PreSt, last.a) + Mag(PreSt, last.b)
            n == MAX(Size(PreSt, last.a), Size(PreSt, last.b))
        IN /\ Mag(Post, last.c) = sum
           /\ Sign(Post, last.c) = Sign(PreSt, last.a)
           /\ Size(Post, last.c) = (IF sum >= Base ^ n THEN n + 1 ELSE n)

\* limbMax + limbMax has been added into a third handle: limbs [limbMax-1, 1]
C2_Witness ==
    /\ AddDone /\ last.a # last.b /\ last.c \notin {last.a, last.b}
    /\ Content(PreSt, last.a).limbs = <<LimbMax>>
    /\ Content(PreSt, last.b).limbs = <<LimbMax>>
    /\ Sign(PreSt, last.a) = 1 /\ Sign(PreSt, last.b) = 1
    /\ Content(Post, last.c) = [sign |-> 1, size |-> 2, limbs |-> <<LimbMax - 1, 1>>]

CanonicalZero == [sign |-> 0, size |-> 1, limbs |-> <<0>>]

\* C3: after bn_add of a normalized value and the value of the same magnitude
\* and the opposite sign, in either order and with dest any handle, dest is
\* canonical zero: size 1, limbs[0] = 0, sign non-negative.
C3_AddNegationIsZero ==
    (/\ AddDone /\ NormalizedOperands
     /\ Sign(PreSt, last.a) # Sign(PreSt, last.b)
     /\ Mag(PreSt, last.a) = Mag(PreSt, last.b)) =>
        Content(Post, last.c) = CanonicalZero

\* a two-limb negative a and its negation were added into a itself
C3_Witness ==
    /\ AddDone /\ NormalizedOperands
    /\ Sign(PreSt, last.a) = 1 /\ Sign(PreSt, last.b) = 0
    /\ Size(PreSt, last.a) = 2
    /\ Mag(PreSt, last.a) = Mag(PreSt, last.b)
    /\ last.c = last.a
    /\ Content(Post, last.c) = CanonicalZero

\* C4: after every bn_add on live operands of size >= 1, whatever their signs
\* and content and whichever handle dest is, dest.size >= 1 and dest has one
\* limb or a nonzero top limb.
C4_ResultNormalized == AddDone => Normalized(Post, last.c)

\* an operand with a zero top limb took part, and the result has two limbs
C4_Witness ==
    /\ AddDone
    /\ ~Normalized(PreSt, last.a)
    /\ Sign(PreSt, last.a) # Sign(PreSt, last.b)
    /\ Size(Post, last.c) = 2
    /\ Normalized(Post, last.c)

\* C5: bn_add(a, b, a) and bn_add(a, b, b) on normalized operands leave in
\* dest the sign, size and limbs that bn_add(a, b, dest) leaves in a separate
\* dest on the same inputs.
C5_AliasedDestSameResult ==
    (AddDone /\ NormalizedOperands /\ last.a # last.b /\ last.c \in {last.a, last.b}) =>
        \A d \in Handles \ {last.a, last.b}, kr \in KrOk :
            Content(Post, last.c) = Content(bn_add(PreSt, last.a, last.b, d, kr), d)

\* dest was the shorter operand, of the opposite sign, and had to grow
C5_Witness ==
    /\ AddDone /\ NormalizedOperands /\ last.a # last.b
    /\ last.c = last.b
    /\ Sign(PreSt, last.a) # Sign(PreSt, last.b)
    /\ Size(PreSt, last.c) = 1
    /\ Size(Post, last.c) = 2

\* C7: every call bn_add makes to bn_do_sub, on normalized operands of
\* opposite sign and unequal magnitude, passes as minuend a magnitude greater
\* than or equal to the subtrahend's.
C7_SubPreconditionAtCallSite ==
    (OppositeUnequal /\ last.sub.called) => last.sub.ma >= last.sub.mb

\* C10: bn_do_sub(a, b, dest) on operands of size >= 1 with |a| >= |b|,
\* normalized or not, leaves dest holding exactly |a| - |b| with no zero top
\* limb unless it has a single limb.
C10_SubExact ==
    (last.op = "do_sub" /\ Mag(PreSt, last.a) >= Mag(PreSt, last.b)) =>
        /\ Mag(Post, last.c) = Mag(PreSt, last.a) - Mag(PreSt, last.b)
        /\ Normalized(Post, last.c)

\* limbs [0,1] minus limbs [1,0] gave limbs [limbMax], size 1
C10_Witness ==
    /\ last.op = "do_sub"
    /\ Content(PreSt, last.a).limbs = <<0, 1>>
    /\ Content(PreSt, last.b).limbs = <<1, 0>>
    /\ Content(Post, last.c).limbs = <<LimbMax>>
    /\ Size(Post, last.c) = 1

HeapUnchanged == hdl = last.pre.hdl /\ mem = last.pre.mem /\ dfree = last.pre.dfree

\* C6 as stated: bn_free(b) returns -1 and releases nothing when b is null or
\* has already been released, and no limb buffer or handle is ever freed twice.
C6_FreeRejectsNullAndReleased ==
    /\ (/\ last.op \in {"free", "crash"}
        /\ (last.a = NULL \/ last.pre.hdl[last.a].stale)) =>
            (last.op = "free" /\ last.ret = -1 /\ HeapUnchanged)
    /\ dfree = {}

\* C6 as amended: bn_free(NULL) returns -1 and releases nothing; bn_free of a
\* live handle whose buffer is allocated returns 0, releases that buffer and
\* that handle once and touches nothing else.
C6_FreeNullOrLive ==
    last.op = "free" =>
        /\ last.a = NULL => (last.ret = -1 /\ HeapUnchanged)
        /\ (last.a # NULL /\ Usable(PreSt, last.a)) =>
              LET buf == last.pre.hdl[last.a].number
              IN /\ last.ret = 0
                 /\ ~hdl[last.a].live
                 /\ ~mem[buf].alloc
                 /\ dfree = last.pre.dfree
                 /\ \A h \in Handles \ {last.a} : hdl[h] = last.pre.hdl[h]
                 /\ \A m \in Bufs \ {buf} : mem[m] = last.pre.mem[m]

\* bn_free(NULL) was called while a handle was live, and returned -1
C6_Witness ==
    /\ last.op = "free" /\ last.a = NULL /\ last.ret = -1
    /\ \E h \in Handles : Usable(Post, h)

\* the buffers no live handle points to
Leaked(st) == {m \in Bufs : st.mem[m].alloc /\ \A h \in Handles : st.hdl[h].live => st.hdl[h].number # m}

\* C8: when krealloc fails inside bn_resize(b, newSize), newSize > 0 and
\* newSize # b.size, bn_resize returns -1 and b still points to its original
\* buffer with its original size, so that buffer is not leaked.
C8_FailedResizeKeepsBuffer ==
    (/\ last.op = "resize" /\ last.kr = "fail"
     /\ last.n > 0 /\ last.n # last.pre.hdl[last.a].size) =>
        /\ last.ret = -1
        /\ hdl[last.a].number = last.pre.hdl[last.a].number
        /\ hdl[last.a].size = last.pre.hdl[last.a].size
        /\ last.pre.hdl[last.a].number \notin Leaked(Post)

\* each live handle owns one allocated buffer of its size, no buffer has two
\* owners, every allocated buffer has an owner, nothing was freed twice
OwnershipInv ==
    /\ \A h \in Handles : hdl[h].live => Usable(Post, h)
    /\ \A h1 \in Handles, h2 \in Handles :
          (h1 # h2 /\ hdl[h1].live /\ hdl[h2].live) => hdl[h1].number # hdl[h2].number
    /\ Leaked(Post) = {}
    /\ dfree = {}

\* C9: in every state reached by bn_alloc, bn_swap, bn_add and bn_free on live
\* handles (allocator never failing), each live handle owns exactly one
\* allocated buffer, no buffer is owned twice, none is leaked or freed twice;
\* and bn_swap exchanges number, size and sign of its two handles wholesale.
C9_ExclusiveOwnership ==
    /\ OwnershipInv
    /\ last.op = "swap" =>
          /\ hdl[last.a] = last.pre.hdl[last.b]
          /\ hdl[last.b] = last.pre.hdl[last.a]
          /\ \A h \in Handles \ {last.a, last.b} : hdl[h] = last.pre.hdl[h]
          /\ mem = last.pre.mem

\* two handles of different sizes were swapped after a third was released
C9_Witness ==
    /\ last.op = "swap"
    /\ Size(Post, last.a) # Size(Post, last.b)
    /\ \E h \in Handles : hdl[h].stale
    /\ Cardinality({m \in Bufs : mem[m].alloc}) = 2

=============================================================================
